---- MODULE Spec2Model ----
(***************************************************************************)
(* Model of the replicate-ui server (src/server-js/index.js): the          *)
(* in-memory task registry, the generation and refinement background       *)
(* pipelines, the status endpoint, the download endpoint, the retry        *)
(* wrapper around the model client, the frame sampler and the markup       *)
(* post-processing; and of the browser application (src/src/App.tsx, the   *)
(* Settings panel and the dropzone): its polling timers and retry.         *)
(***************************************************************************)
EXTENDS Integers, Sequences, FiniteSets, TLC

VARIABLES
    rc,           \* one call of callClaudeWithRetry
    sampler,      \* one run of the frame sampler of extractFramesFromVideo
    post,         \* one run of the post-processing of a generation answer
    upload,       \* one file on its way from the drop zone or a direct request
    client,       \* the browser application (App.tsx, Settings)
    download,     \* one request to GET /download/:generationId/:filename
    now,          \* Date.now(), in clock ticks
    activeTasks,  \* the Map activeTasks: task id -> task record
    pipes,        \* the background pipelines started so far, in order of acceptance
    dirs,         \* sub-directories of tempDir: name -> [birth, zip]
    sweep,        \* the retention sweep: timer and pending fs callbacks
    crashed,      \* an exception escaped a callback: the process is gone
    answer,       \* observed: the HTTP answer sent by the step just taken, if any
    issued        \* observed: task ids returned in 200 answers

srvVars == <<now, activeTasks, pipes, dirs, sweep, crashed, answer, issued>>

\* the functions that are also checked on their own
unitVars == <<rc, sampler, post, upload, client, download>>

vars == <<rc, sampler, post, upload, client, download, now, activeTasks, pipes, dirs, sweep, crashed, answer, issued>>

(***************************************************************************)
(* callClaudeWithRetry  (src/server-js/index.js:210-244)                   *)
(***************************************************************************)

\* JavaScript `undefined` for a missing error.error.type
Undefined == "undefined"

\* JavaScript `undefined` for a missing error.status
NoStatus == 0

\* default parameter values of callClaudeWithRetry
DefaultMaxRetries == 3
DefaultInitialDelay == 2000

\* largest maxRetries argument explored
MaxRetriesArg == 3

\* initialDelay arguments explored
InitialDelays == {1, DefaultInitialDelay}

\* error objects the wrapped operation may raise: .status and .error.type
ErrorStatuses == {NoStatus, 400, 429, 499, 500, 503, 529}
ErrorTypes == {Undefined, "overloaded_error"}
Errors == [status : ErrorStatuses, etype : ErrorTypes]

\* `lastError` before any catch, and the value thrown when it is still unset
NoError == [status |-> NoStatus, etype |-> "none"]

RECURSIVE Pow2(_)
\* Math.pow(2, n)
Pow2(n) == IF n = 0 THEN 1 ELSE 2 * Pow2(n - 1)

\* index.js:221-222
isOverloaded(error) ==
    \/ error.status = 529
    \/ error.etype = "overloaded_error"

\* index.js:223
isRateLimited(error) == error.status = 429

\* variant of isServerError: strict comparison
isServerErrorStrict(error) == error.status # NoStatus /\ error.status > 500

\* index.js:224; `undefined >= 500` is false in JavaScript
isServerError(error) == error.status # NoStatus /\ error.status >= 500

\* index.js:226
isRetryable(error) == isOverloaded(error) \/ isRateLimited(error) \/ isServerError(error)

\* variant of BackoffDelay: linear instead of exponential
BackoffDelayLinear(initialDelay, retryCount) == initialDelay * (retryCount + 1)

\* index.js:228
BackoffDelay(initialDelay, retryCount) == initialDelay * Pow2(retryCount)

\* variants of LoopCondition: one attempt too few, one too many
LoopConditionShort(retryCount, maxRetries) == retryCount < maxRetries - 1
LoopConditionLong(retryCount, maxRetries) == retryCount <= maxRetries

\* index.js:214
LoopCondition(retryCount, maxRetries) == retryCount < maxRetries

\* state of one call right after its parameters are bound (index.js:210-214):
\* the loop test has been evaluated once
RetryEntry(maxRetries, initialDelay) ==
    [maxRetries   |-> maxRetries,
     initialDelay |-> initialDelay,
     retryCount   |-> 0,
     lastError    |-> NoError,
     pc           |-> IF LoopCondition(0, maxRetries) THEN "invoke" ELSE "thrown",
     caught       |-> NoError,      \* error in flight between throw and catch
     thrown       |-> NoError,      \* error thrown to the caller
     invocations  |-> 0,            \* observed: calls of messages.create
     waits        |-> << >>,        \* observed: setTimeout delays, in order
     raised       |-> << >>]        \* observed: errors raised by messages.create, in order

RetryInputs == {RetryEntry(m, d) : m \in 0..MaxRetriesArg, d \in InitialDelays}

\* index.js:216, the awaited operation resolves: the call returns its result
RetryInvokeOk ==
    /\ rc.pc = "invoke"
    /\ rc' = [rc EXCEPT !.pc = "returned", !.invocations = @ + 1]
    /\ UNCHANGED <<srvVars, sampler, post, upload, client, download>>

\* index.js:216-218, the awaited operation rejects with error e
RetryInvokeFail ==
    /\ rc.pc = "invoke"
    /\ \E e \in Errors :
         rc' = [rc EXCEPT !.pc = "catch", !.caught = e,
                          !.invocations = @ + 1,
                          !.raised = Append(@, e)]
    /\ UNCHANGED <<srvVars, sampler, post, upload, client, download>>

\* index.js:217-237, the catch block up to the setTimeout or the rethrow
RetryCatch ==
    /\ rc.pc = "catch"
    /\ IF isRetryable(rc.caught)
       THEN rc' = [rc EXCEPT !.lastError = rc.caught,
                             !.pc = "wait",
                             !.waits = Append(@, BackoffDelay(rc.initialDelay, rc.retryCount))]
       ELSE rc' = [rc EXCEPT !.lastError = rc.caught,
                             !.pc = "thrown",
                             !.thrown = rc.caught]
    /\ UNCHANGED <<srvVars, sampler, post, upload, client, download>>

\* index.js:232-233 then 214 and 242-243: the timer fires, retryCount++, the loop
\* test is evaluated again; on exit lastError is thrown
RetryWake ==
    /\ rc.pc = "wait"
    /\ IF LoopCondition(rc.retryCount + 1, rc.maxRetries)
       THEN rc' = [rc EXCEPT !.retryCount = @ + 1, !.pc = "invoke"]
       ELSE rc' = [rc EXCEPT !.retryCount = @ + 1, !.pc = "thrown",
                             !.thrown = rc.lastError]
    /\ UNCHANGED <<srvVars, sampler, post, upload, client, download>>

RetryNext ==
    \/ RetryInvokeOk
    \/ RetryInvokeFail
    \/ RetryCatch
    \/ RetryWake

(***************************************************************************)
(* The frame sampler of extractFramesFromVideo (src/server-js/index.js:61-99) *)
(* Times are in milliseconds; a timestamp is a fraction num / den.          *)
(***************************************************************************)

\* the default options (index.js:41-42) and those of the call site (307-308)
DefaultMaxFrames == 15
DefaultMinInterval == 500
CallMaxFrames == 20
CallMinInterval == 200

\* metadata.format.duration values fed to the sampler
Durations ==
    {50, 100, 300, 301, 310, 400, 600, 900, 1000, 2100, 2500, 2700, 4200, 4900, 5000,
     5001, 6000, 7500, 10000, 14900, 15000, 15001, 20000, 60000}

MaxFramesArgs == {1, 2, 3, DefaultMaxFrames, CallMaxFrames}

MinIntervalArgs == {CallMinInterval, DefaultMinInterval}

\* the smallest integer >= a / b, for a >= 0 and b > 0
CeilDiv(a, b) == (a + b - 1) \div b

\* duration / step is evaluated in double precision: for these whole
\* millisecond durations (up to 15 s) the double quotient lies just above the
\* integer that the exact quotient equals (2.1 / 0.3 = 7.000000000000001)
DoubleQuotientAbove == {<<2100, 300>>, <<2700, 300>>, <<4200, 300>>}

\* Math.ceil(duration / 0.3) and Math.ceil(duration / 0.5)
MathCeilOfQuotient(duration, step) ==
    CeilDiv(duration, step) + (IF <<duration, step>> \in DoubleQuotientAbove THEN 1 ELSE 0)

Min(a, b) == IF a <= b THEN a ELSE b

Max(a, b) == IF a >= b THEN a ELSE b

\* index.js:69-82: the number of frames aimed at
FrameCount(duration, maxFrames) ==
    IF duration <= 5000 THEN Min(MathCeilOfQuotient(duration, 300), maxFrames)
    ELSE IF duration <= 15000 THEN Min(MathCeilOfQuotient(duration, 500), maxFrames)
    ELSE maxFrames

\* index.js:71-85: interval = Math.max(duration / frameCount, minInterval), as
\* the numerator of a fraction over frameCount
IntervalNum(duration, frameCount, minInterval) ==
    Max(duration, minInterval * frameCount)

\* variant of ClampedTimestamp: the frames are placed at the end of their
\* intervals and not clamped
ShiftedTimestamp(i, intervalNum, duration, frameCount) ==
    [num |-> (i + 1) * intervalNum, den |-> frameCount]

\* index.js:95: Math.min(i * interval, duration - 0.1)
ClampedTimestamp(i, intervalNum, duration, frameCount) ==
    [num |-> Min(i * intervalNum, (duration - 100) * frameCount), den |-> frameCount]

SamplerEntry(duration, maxFrames, minInterval) ==
    [duration |-> duration, maxFrames |-> maxFrames, minInterval |-> minInterval,
     pc |-> "probe", frameCount |-> 0, intervalNum |-> 0, i |-> 0,
     timestamps |-> << >>, frames |-> 0]

SamplerInputs ==
    {SamplerEntry(d, m, v) : d \in Durations, m \in MaxFramesArgs, v \in MinIntervalArgs}

\* index.js:61-90: frameCount and interval are computed, timestamp 0 is pushed
SamplerPlan ==
    /\ sampler.pc = "probe"
    /\ LET frameCount == FrameCount(sampler.duration, sampler.maxFrames) IN
       sampler' = [sampler EXCEPT
                      !.frameCount = frameCount,
                      !.intervalNum = IntervalNum(sampler.duration, frameCount, sampler.minInterval),
                      !.timestamps = <<[num |-> 0, den |-> 1]>>,
                      !.i = 1,
                      !.pc = "loop"]
    /\ UNCHANGED <<srvVars, rc, post, upload, client, download>>

\* index.js:93-97: one turn of the for loop
SamplerPush ==
    /\ sampler.pc = "loop"
    /\ sampler.frameCount > 1
    /\ sampler.i < sampler.frameCount
    /\ sampler' = [sampler EXCEPT
                      !.timestamps = Append(@, ClampedTimestamp(sampler.i, sampler.intervalNum,
                                                                sampler.duration, sampler.frameCount)),
                      !.i = @ + 1]
    /\ UNCHANGED <<srvVars, rc, post, upload, client, download>>

\* index.js:102-141: one frame is extracted per timestamp and the frames
\* are returned
SamplerReturn ==
    /\ sampler.pc = "loop"
    /\ ~(sampler.frameCount > 1 /\ sampler.i < sampler.frameCount)
    /\ sampler' = [sampler EXCEPT !.frames = Len(sampler.timestamps), !.pc = "returned"]
    /\ UNCHANGED <<srvVars, rc, post, upload, client, download>>

SamplerNext == SamplerPlan \/ SamplerPush \/ SamplerReturn

(***************************************************************************)
(* Post-processing of the generation answer (src/server-js/index.js:546-671). *)
(* A text is a sequence of tokens: tags, the fence ```, the words that can    *)
(* follow a fence, markup without any of these, and white space; "FENCE"      *)
(* stands for three backticks.                                                *)
(***************************************************************************)

Tokens ==
    {"<html>", "</html>", "<body>", "</body>", "<style>", "</style>",
     "<script>", "</script>", "FENCE", "html", "css", "js", "javascript",
     "<p>Hi</p>", " "}

\* longest answer text explored, in tokens
MaxTextLen == 3

Texts == UNION {[1..n -> Tokens] : n \in 0..MaxTextLen}

\* the answer "<html><body><p>Hi</p></body></html>"
HtmlBodyHi == <<"<html>", "<body>", "<p>Hi</p>", "</body>", "</html>">>

NoMatch == [found |-> FALSE, first |-> 0, last |-> 0]

SetMin(S) == CHOOSE x \in S : \A y \in S : x <= y

\* the first index >= from at which `text` has the tokens of `word`, or 0
IndexOf(text, word, from) ==
    LET I == {i \in from..(Len(text) - Len(word) + 1) :
                 \A k \in 1..Len(word) : text[i + k - 1] = word[k]}
    IN IF I = {} THEN 0 ELSE SetMin(I)

\* text.match(/open[\s\S]*?close/): the leftmost `open` that has a `close`
\* after it, up to the nearest such `close`
MatchLazy(text, open, close) ==
    LET i == IndexOf(text, open, 1)
        j == IF i = 0 THEN 0 ELSE IndexOf(text, close, i + Len(open))
    IN IF i = 0 \/ j = 0 THEN NoMatch
       ELSE [found |-> TRUE, first |-> i, last |-> j + Len(close) - 1]

\* match[0]
Whole(text, m) == SubSeq(text, m.first, m.last)

\* match[1]: what lies between the opening and the closing part
Group(text, m, open, close) == SubSeq(text, m.first + Len(open), m.last - Len(close))

RECURSIVE RemoveFences(_, _)
\* text.replace(/```word|```/g, '')
RemoveFences(text, words) ==
    IF text = << >> THEN << >>
    ELSE IF text[1] = "FENCE"
         THEN IF Len(text) > 1 /\ text[2] \in words
              THEN RemoveFences(SubSeq(text, 3, Len(text)), words)
              ELSE RemoveFences(Tail(text), words)
         ELSE <<text[1]>> \o RemoveFences(Tail(text), words)

RECURSIVE trim(_)
\* String.prototype.trim
trim(text) ==
    IF text = << >> THEN << >>
    ELSE IF text[1] = " " THEN trim(Tail(text))
    ELSE IF text[Len(text)] = " " THEN trim(SubSeq(text, 1, Len(text) - 1))
    ELSE text

RECURSIVE RemoveBlocks(_, _, _)
\* text.replace(/open[\s\S]*?close/gi, '')
RemoveBlocks(text, open, close) ==
    LET m == MatchLazy(text, open, close) IN
    IF ~m.found THEN text
    ELSE SubSeq(text, 1, m.first - 1) \o RemoveBlocks(SubSeq(text, m.last + 1, Len(text)), open, close)

\* index.js:553-555: the three patterns tried in turn for the HTML
HtmlMatch(htmlContent) ==
    LET a == MatchLazy(htmlContent, <<"<html>">>, <<"</html>">>)
        b == MatchLazy(htmlContent, <<"<body>">>, <<"</body>">>)
        c == MatchLazy(htmlContent, <<"FENCE", "html">>, <<"FENCE">>)
    IN IF a.found THEN a ELSE IF b.found THEN b ELSE c

\* variant of ExtractHtml: without the fallback to the whole answer
ExtractHtmlNoFallback(htmlContent) ==
    LET htmlMatch == HtmlMatch(htmlContent) IN
    IF htmlMatch.found
    THEN trim(RemoveFences(Whole(htmlContent, htmlMatch), {"html"}))
    ELSE << >>

\* index.js:553-562: cleanedHtmlContent
ExtractHtml(htmlContent) ==
    LET htmlMatch == HtmlMatch(htmlContent) IN
    IF htmlMatch.found
    THEN trim(RemoveFences(Whole(htmlContent, htmlMatch), {"html"}))
    ELSE htmlContent

\* index.js:565-570: styleContent
ExtractCss(htmlContent) ==
    LET a == MatchLazy(htmlContent, <<"<style>">>, <<"</style>">>)
        b == MatchLazy(htmlContent, <<"FENCE", "css">>, <<"FENCE">>)
    IN IF a.found THEN trim(RemoveFences(Group(htmlContent, a, <<"<style>">>, <<"</style>">>), {"css"}))
       ELSE IF b.found THEN trim(RemoveFences(Group(htmlContent, b, <<"FENCE", "css">>, <<"FENCE">>), {"css"}))
       ELSE << >>

\* index.js:573-579: scriptContent
ExtractJs(htmlContent) ==
    LET a == MatchLazy(htmlContent, <<"<script>">>, <<"</script>">>)
        b == MatchLazy(htmlContent, <<"FENCE", "javascript">>, <<"FENCE">>)
        c == MatchLazy(htmlContent, <<"FENCE", "js">>, <<"FENCE">>)
        words == {"javascript", "js"}
    IN IF a.found THEN trim(RemoveFences(Group(htmlContent, a, <<"<script>">>, <<"</script>">>), words))
       ELSE IF b.found THEN trim(RemoveFences(Group(htmlContent, b, <<"FENCE", "javascript">>, <<"FENCE">>), words))
       ELSE IF c.found THEN trim(RemoveFences(Group(htmlContent, c, <<"FENCE", "js">>, <<"FENCE">>), words))
       ELSE << >>

\* index.js:582-585: cleanHtml
CleanHtml(cleanedHtmlContent) ==
    trim(RemoveBlocks(RemoveBlocks(cleanedHtmlContent, <<"<style>">>, <<"</style>">>),
                      <<"<script>">>, <<"</script>">>))

\* index.js:597-671: the fixed head (with the script tag when there is a
\* script) and the body
CompleteHtml(isVideo, scriptContent, cleanHtml) ==
    [head |-> "boilerplate", scriptTag |-> (isVideo \/ scriptContent # << >>), body |-> cleanHtml]

PostEntry(htmlContent, isVideo) ==
    [htmlContent |-> htmlContent, isVideo |-> isVideo, pc |-> "html",
     cleanedHtmlContent |-> << >>, styleContent |-> << >>, scriptContent |-> << >>,
     cleanHtml |-> << >>, completeHtml |-> CompleteHtml(FALSE, << >>, << >>)]

PostInputs == {PostEntry(t, v) : t \in Texts \cup {HtmlBodyHi}, v \in BOOLEAN}

\* index.js:553-562
PostExtractHtml ==
    /\ post.pc = "html"
    /\ post' = [post EXCEPT !.cleanedHtmlContent = ExtractHtml(post.htmlContent), !.pc = "css"]
    /\ UNCHANGED <<srvVars, rc, sampler, upload, client, download>>

\* index.js:565-570
PostExtractCss ==
    /\ post.pc = "css"
    /\ post' = [post EXCEPT !.styleContent = ExtractCss(post.htmlContent), !.pc = "js"]
    /\ UNCHANGED <<srvVars, rc, sampler, upload, client, download>>

\* index.js:573-579
PostExtractJs ==
    /\ post.pc = "js"
    /\ post' = [post EXCEPT !.scriptContent = ExtractJs(post.htmlContent), !.pc = "clean"]
    /\ UNCHANGED <<srvVars, rc, sampler, upload, client, download>>

\* index.js:582-585
PostClean ==
    /\ post.pc = "clean"
    /\ post' = [post EXCEPT !.cleanHtml = CleanHtml(post.cleanedHtmlContent), !.pc = "assemble"]
    /\ UNCHANGED <<srvVars, rc, sampler, upload, client, download>>

\* index.js:597-671
PostAssemble ==
    /\ post.pc = "assemble"
    /\ post' = [post EXCEPT
                   !.completeHtml = CompleteHtml(post.isVideo, post.scriptContent, post.cleanHtml),
                   !.pc = "assembled"]
    /\ UNCHANGED <<srvVars, rc, sampler, upload, client, download>>

PostNext == PostExtractHtml \/ PostExtractCss \/ PostExtractJs \/ PostClean \/ PostAssemble

(***************************************************************************)
(* Media ingestion: MediaDropzone.handleFile (src/src/components/           *)
(* ImageDropzone.tsx:134-165), multer (src/server-js/index.js:20-23) and    *)
(* the media check of the POST handlers (index.js:258-265). Sizes in bytes. *)
(***************************************************************************)

MB == 1024 * 1024

\* ImageDropzone.tsx:149
DropzoneImageLimit == 5 * MB
DropzoneVideoLimit == 50 * MB

\* index.js:22
MulterFileSize == 50 * MB

MimeTypes == {"image/png", "image/jpeg", "video/mp4", "application/pdf", "text/html"}

FileSizes == {1024, DropzoneImageLimit, DropzoneImageLimit + 1, 20 * MB,
              MulterFileSize, MulterFileSize + 1}

\* String.prototype.startsWith on the MIME types above
startsWith(type, prefix) ==
    \/ prefix = "image/" /\ type \in {"image/png", "image/jpeg"}
    \/ prefix = "video/" /\ type \in {"video/mp4"}

\* origin "dropzone": the file is chosen in the application's page;
\* origin "request": the multipart request is sent to the server by any
\* other HTTP client
UploadEntry(origin, type, size) ==
    [origin |-> origin, type |-> type, size |-> size,
     pc |-> IF origin = "dropzone" THEN "chosen" ELSE "posted",
     code |-> 0, taskStarted |-> FALSE, asImage |-> FALSE]

UploadInputs ==
    {UploadEntry(o, t, z) : o \in {"dropzone", "request"}, t \in MimeTypes, z \in FileSizes}

\* ImageDropzone.tsx:134-165: the file is refused with a toast, or handed to
\* the application, which posts it
DropzoneHandleFile ==
    /\ upload.pc = "chosen"
    /\ LET isVideo == startsWith(upload.type, "video/")
           isImage == startsWith(upload.type, "image/")
           maxSize == IF isVideo THEN DropzoneVideoLimit ELSE DropzoneImageLimit
       IN upload' = [upload EXCEPT !.pc =
                        IF ~isVideo /\ ~isImage THEN "refused"
                        ELSE IF upload.size > maxSize THEN "refused"
                        ELSE "posted"]
    /\ UNCHANGED <<srvVars, rc, sampler, post, client, download>>

\* index.js:20-23 and 247: upload.single('media'); a file over the limit
\* makes multer pass a MulterError to Express, whose default handler
\* answers 500
MulterSingle ==
    /\ upload.pc = "posted"
    /\ upload' = IF upload.size > MulterFileSize
                 THEN [upload EXCEPT !.pc = "answered", !.code = 500]
                 ELSE [upload EXCEPT !.pc = "handler"]
    /\ UNCHANGED <<srvVars, rc, sampler, post, client, download>>

\* index.js:258-284 and 320-324: req.file is present, the task is created
\* and a file that is not a video is sent to the model as an image
MediaAccepted ==
    /\ upload.pc = "handler"
    /\ LET isVideo == startsWith(upload.type, "video/") IN
       upload' = [upload EXCEPT !.pc = "answered", !.code = 200,
                                !.taskStarted = TRUE, !.asImage = ~isVideo]
    /\ UNCHANGED <<srvVars, rc, sampler, post, client, download>>

UploadNext == DropzoneHandleFile \/ MulterSingle \/ MediaAccepted

(***************************************************************************)
(* The browser application: src/src/App.tsx and the Settings panel          *)
(* (src/unnamed/part_003)                                                   *)
(***************************************************************************)

Sonnet37 == "claude-3-7-sonnet-20250219"
Opus == "claude-3-opus-20240229"
Sonnet == "claude-3-sonnet-20240229"
Haiku == "claude-3-haiku-20240307"

\* the entries of the model selector
Models == {Sonnet37, Opus, Haiku}

\* what the user can have in the key field: nothing, or a key
ApiKeys == {"", "sk-ant-key"}

\* the values a function sees of the render that created it; such a function
\* is kept by setInterval, by setTimeout and by the button of a toast
NoClosure ==
    [set |-> FALSE, apiKey |-> "", model |-> "", media |-> FALSE, taskId |-> "",
     retryCount |-> 0]

Render(c) ==
    [set |-> TRUE, apiKey |-> c.apiKey, model |-> c.model, media |-> c.media,
     taskId |-> c.taskId, retryCount |-> c.retryCount]

\* a request of the application to its server at localhost:3000; apiKey is
\* the value of the X-API-Key header, "" when the header is absent
Request(url, apiKey, model) == [url |-> url, apiKey |-> apiKey, model |-> model]

NoRequest == Request("", "", "")

\* toast({title, action}): the toast on screen; `retry` is the handleRetry its
\* Retry button calls
Toast(title, retry) == [title |-> title, retry |-> retry]

\* the tasks of the server as the application knows them: the latest
\* generation and the latest refinement ("none" before the first)
NoTasks == [generation |-> "none", refinement |-> "none"]

\* App.tsx:12-29, before the mount effect has run; `stored` and
\* `storedModel` are the localStorage entries claude-api-key and
\* claude-model left by an earlier visit ("" when absent); `request` is the
\* latest request sent; taskId is "" (null), "generation" or "refinement";
\* htmlContent is "", "generated" or "refined"; effectPoll and analyzePoll
\* are the two setInterval timers and `ref` tells which of them
\* statusCheckInterval.current holds
ClientEntry(stored, storedModel) ==
    [pc |-> "mount", apiKey |-> "", stored |-> stored,
     model |-> Sonnet, storedModel |-> storedModel,
     media |-> FALSE, htmlContent |-> "", taskId |-> "",
     isLoading |-> FALSE, isAnalyzing |-> FALSE, isRetrying |-> FALSE,
     showSettings |-> FALSE, error |-> "",
     retryCount |-> 0, timer |-> NoClosure,
     effectPoll |-> NoClosure, analyzePoll |-> NoClosure, ref |-> "none",
     toast |-> Toast("", NoClosure), request |-> NoRequest,
     server |-> NoTasks]

\* part_003:33-38: the effect of the Settings panel, run after every render
\* in which the panel is shown (its dependency is an inline function)
SettingsEffect(c) ==
    IF c.showSettings
    THEN [c EXCEPT !.model = IF c.storedModel # "" THEN c.storedModel ELSE Sonnet]
    ELSE c

\* App.tsx:54-56, 103-106, 121-124, 329-331:
\* clearInterval(statusCheckInterval.current); statusCheckInterval.current = null
ClearRef(c) ==
    [c EXCEPT !.effectPoll = IF c.ref = "effect" THEN NoClosure ELSE @,
              !.analyzePoll = IF c.ref = "analyze" THEN NoClosure ELSE @,
              !.ref = "none"]

\* App.tsx:52-68: the polling effect, run when taskId or isLoading has
\* changed from `before` to `after`: the cleanup of the earlier run, then a
\* new timer with the checkTaskStatus of the new render
PollingEffect(before, after) ==
    IF before.taskId = after.taskId /\ before.isLoading = after.isLoading THEN after
    ELSE LET cleaned == IF before.taskId # "" /\ before.isLoading
                        THEN [after EXCEPT !.effectPoll = NoClosure, !.ref = "none"]
                        ELSE after
         IN IF after.taskId # "" /\ after.isLoading
            THEN [ClearRef(cleaned) EXCEPT !.effectPoll = Render(after), !.ref = "effect"]
            ELSE cleaned

\* the effects that follow a handler which took the state from `before` to
\* `after`
Rendered(before, after) == SettingsEffect(PollingEffect(before, after))

\* the overlay of App.tsx:552-553 covers the page
Overlay == client.isLoading \/ client.isAnalyzing

\* App.tsx:32-42: the saved key and model are loaded
ClientMount ==
    /\ client.pc = "mount"
    /\ client' = [client EXCEPT !.pc = "ready",
                                !.apiKey = IF client.stored # "" THEN client.stored ELSE @,
                                !.model = IF client.storedModel # "" THEN client.storedModel ELSE @]
    /\ UNCHANGED <<srvVars, rc, sampler, post, upload, download>>

\* App.tsx:390 and 410: the settings button and the panel's close button
ClientToggleSettings ==
    /\ client.pc = "ready"
    /\ ~Overlay
    /\ client' = SettingsEffect([client EXCEPT !.showSettings = ~@])
    /\ UNCHANGED <<srvVars, rc, sampler, post, upload, download>>

\* part_003:85 and App.tsx:401-404: onApiKeyChange
ClientTypeKey(key) ==
    /\ client.pc = "ready"
    /\ client.showSettings /\ ~Overlay
    /\ client' = SettingsEffect([client EXCEPT !.apiKey = key, !.stored = key])
    /\ UNCHANGED <<srvVars, rc, sampler, post, upload, download>>

\* part_003:40-55: handleSaveApiKey
ClientSaveKey ==
    /\ client.pc = "ready"
    /\ client.showSettings /\ ~Overlay
    /\ client' = IF client.apiKey = ""
                 THEN [client EXCEPT !.toast = Toast("API Key Required", NoClosure)]
                 ELSE [client EXCEPT !.stored = client.apiKey,
                                     !.toast = Toast("API Key Saved", NoClosure)]
    /\ UNCHANGED <<srvVars, rc, sampler, post, upload, download>>

\* part_003:57-66 and App.tsx:406-409: handleModelChange, onModelChange
ClientSelectModel(model) ==
    /\ client.pc = "ready"
    /\ client.showSettings /\ ~Overlay
    /\ client' = [client EXCEPT !.model = model, !.storedModel = model,
                                !.toast = Toast("Model Updated", NoClosure)]
    /\ UNCHANGED <<srvVars, rc, sampler, post, upload, download>>

\* App.tsx:189-207: handleMediaUpload with a file
ClientUpload ==
    /\ client.pc = "ready"
    /\ ~Overlay
    /\ client' = SettingsEffect([client EXCEPT !.media = TRUE, !.htmlContent = "",
                                              !.error = ""])
    /\ UNCHANGED <<srvVars, rc, sampler, post, upload, download>>

\* App.tsx:209-275: the generateHtml of the render `closure`, run on the
\* state c; `ok` is serverResponse.ok
GenerateHtml(c, closure, ok) ==
    IF ~closure.media THEN [c EXCEPT !.toast = Toast("No media selected", NoClosure)]
    ELSE IF closure.apiKey = ""
    THEN [c EXCEPT !.toast = Toast("API Key Required", NoClosure), !.showSettings = TRUE]
    ELSE LET posted == [c EXCEPT !.request = Request("generate-html", closure.apiKey, closure.model),
                                 !.error = ""]
         IN IF ok THEN [posted EXCEPT !.isLoading = TRUE, !.taskId = "generation",
                                      !.server.generation = "processing"]
            ELSE [posted EXCEPT !.isLoading = FALSE, !.error = "final",
                                !.toast = Toast("Error", NoClosure)]

\* App.tsx:435-438: the Generate button
ClientGenerate(ok) ==
    /\ client.pc = "ready"
    /\ client.media /\ ~client.isLoading /\ ~Overlay
    /\ client' = Rendered(client, GenerateHtml(client, Render(client), ok))
    /\ UNCHANGED <<srvVars, rc, sampler, post, upload, download>>

StatusOutcomes == {"completed", "error-retryable", "error-final"}

\* the pipeline of the latest task of a kind ends
ServerSettles(kind, outcome) ==
    /\ client.pc = "ready"
    /\ client.server[kind] = "processing"
    /\ client' = [client EXCEPT !.server[kind] = outcome]
    /\ UNCHANGED <<srvVars, rc, sampler, post, upload, download>>

\* App.tsx:70-161: the checkTaskStatus of the render `closure`, run on the
\* state c (closure.taskId # "")
CheckTaskStatus(c, closure) ==
    LET status == c.server[closure.taskId]
        polled == [c EXCEPT !.request = Request("task-status", "", "")]
    IN IF status = "completed"
       THEN [ClearRef(polled) EXCEPT
               !.htmlContent = IF closure.taskId = "generation" THEN "generated" ELSE "refined",
               !.isLoading = FALSE, !.isAnalyzing = FALSE, !.taskId = "",
               !.retryCount = 0, !.isRetrying = FALSE,
               !.toast = Toast("Success", NoClosure)]
       ELSE IF status \in {"error-retryable", "error-final"}
       THEN [ClearRef(polled) EXCEPT
               !.error = IF status = "error-retryable" THEN "retryable" ELSE "final",
               !.isLoading = FALSE, !.isAnalyzing = FALSE, !.taskId = "",
               !.toast = IF status = "error-retryable" /\ closure.retryCount < 3
                         THEN Toast("Error - Claude API Issue", closure)
                         ELSE Toast("Error", NoClosure)]
       ELSE polled

\* App.tsx:58-61: the timer of the polling effect fires
ClientPoll ==
    /\ client.pc = "ready"
    /\ client.effectPoll.set
    /\ client.effectPoll.taskId # ""
    /\ client' = Rendered(client, CheckTaskStatus(client, client.effectPoll))
    /\ UNCHANGED <<srvVars, rc, sampler, post, upload, download>>

\* App.tsx:333-337: the timer of analyzeAndRefineUI fires; its
\* checkTaskStatus returns at line 71 when its taskId is null
ClientPollAnalysis ==
    /\ client.pc = "ready"
    /\ client.analyzePoll.set
    /\ client.analyzePoll.taskId # ""
    /\ client' = Rendered(client, CheckTaskStatus(client, client.analyzePoll))
    /\ UNCHANGED <<srvVars, rc, sampler, post, upload, download>>

\* App.tsx:163-187: the handleRetry of the render `closure`, run on the state
\* c; the timer keeps the generateHtml of the same render
HandleRetry(c, closure) ==
    [c EXCEPT !.error = "",
              !.isRetrying = TRUE,
              !.retryCount = @ + 1,
              !.model = IF closure.retryCount = 0 /\ closure.model = Opus THEN Sonnet
                        ELSE IF closure.retryCount = 0 /\ closure.model = Sonnet THEN Haiku
                        ELSE @,
              !.timer = closure]

\* App.tsx:140-147: the Retry button of the toast
ClientRetry ==
    /\ client.pc = "ready"
    /\ client.toast.retry.set
    /\ ~client.timer.set
    /\ client' = Rendered(client, HandleRetry([client EXCEPT !.toast = Toast("", NoClosure)],
                                              client.toast.retry))
    /\ UNCHANGED <<srvVars, rc, sampler, post, upload, download>>

\* App.tsx:475-480: the Retry button of the error panel
ClientRetryPanel ==
    /\ client.pc = "ready"
    /\ client.error = "retryable" /\ ~client.isRetrying /\ ~Overlay
    /\ ~client.timer.set
    /\ client' = Rendered(client, HandleRetry(client, Render(client)))
    /\ UNCHANGED <<srvVars, rc, sampler, post, upload, download>>

\* App.tsx:175, 182, 185: setTimeout(() => generateHtml(), 1000) fires
ClientRetryTimer(ok) ==
    /\ client.pc = "ready"
    /\ client.timer.set
    /\ client' = Rendered(client, GenerateHtml([client EXCEPT !.timer = NoClosure],
                                               client.timer, ok))
    /\ UNCHANGED <<srvVars, rc, sampler, post, upload, download>>

\* App.tsx:277-348 and 534-538: analyzeAndRefineUI from its button
ClientAnalyze(ok) ==
    /\ client.pc = "ready"
    /\ client.media /\ client.htmlContent # "" /\ ~client.isAnalyzing /\ ~Overlay
    /\ client' = Rendered(client,
         IF client.apiKey = ""
         THEN [client EXCEPT !.toast = Toast("API Key Required", NoClosure),
                             !.showSettings = TRUE]
         ELSE LET posted == [client EXCEPT
                               !.request = Request("analyze-refine", client.apiKey, client.model)]
              IN IF ok
                 THEN [ClearRef(posted) EXCEPT
                         !.isAnalyzing = TRUE, !.taskId = "refinement",
                         !.server.refinement = "processing",
                         !.analyzePoll = Render(client), !.ref = "analyze"]
                 ELSE [posted EXCEPT !.isAnalyzing = FALSE, !.error = "final",
                                     !.toast = Toast("Error", NoClosure)])
    /\ UNCHANGED <<srvVars, rc, sampler, post, upload, download>>

ClientNext ==
    \/ ClientMount
    \/ ClientToggleSettings
    \/ \E key \in ApiKeys : ClientTypeKey(key)
    \/ ClientSaveKey
    \/ \E model \in Models : ClientSelectModel(model)
    \/ ClientUpload
    \/ \E ok \in BOOLEAN : ClientGenerate(ok)
    \/ \E kind \in {"generation", "refinement"}, outcome \in StatusOutcomes :
          ServerSettles(kind, outcome)
    \/ ClientPoll
    \/ ClientPollAnalysis
    \/ ClientRetry
    \/ ClientRetryPanel
    \/ \E ok \in BOOLEAN : ClientRetryTimer(ok)
    \/ \E ok \in BOOLEAN : ClientAnalyze(ok)

(***************************************************************************)
(* GET /download/:generationId/:filename (index.js:1193-1203)              *)
(***************************************************************************)

\* paths are sequences of segments below the file system root; a route
\* parameter is the decoded text between two slashes of the URL, so it
\* holds several segments when the URL has %2F in it
AppDir == <<"app">>

\* index.js:26: path.join(__dirname, 'temp')
tempDir == Append(AppDir, "temp")

\* the regular files on disk: the server's own files, one artifact
\* directory, and a file outside the application
DiskFiles ==
    {<<"app", "index.js">>, <<"app", ".env">>, <<"etc", "passwd">>,
     <<"app", "temp", "1700", "index.html">>,
     <<"app", "temp", "1700", "ui-replication.zip">>,
     <<"app", "temp", "1700", "frames", "frame_0.jpg">>}

Prefixes(path) == {SubSeq(path, 1, k) : k \in 0..(Len(path) - 1)}

\* the directories on disk
DiskDirs == UNION {Prefixes(f) : f \in DiskFiles}

\* values of req.params.generationId and req.params.filename
ParamValues ==
    {<<"1700">>, <<"1699">>, <<"ui-replication.zip">>, <<"index.html">>,
     <<"frames", "frame_0.jpg">>, <<"index.js">>, <<"passwd">>,
     <<"..">>, <<"..", "..">>, <<"..", "..", "etc">>}

\* path.normalize: "." is dropped, ".." removes the segment before it
RECURSIVE Resolve(_, _)
Resolve(stack, segments) ==
    IF segments = << >> THEN stack
    ELSE LET h == Head(segments) IN
         Resolve(IF h = ".." THEN (IF stack = << >> THEN << >>
                                   ELSE SubSeq(stack, 1, Len(stack) - 1))
                 ELSE IF h = "." THEN stack
                 ELSE Append(stack, h),
                 Tail(segments))

\* path.join(tempDir, generationId, filename)
PathJoin(base, generationId, filename) == Resolve(<< >>, base \o generationId \o filename)

\* fs.existsSync
existsSync(path) == path \in DiskFiles \cup DiskDirs

NoPath == <<"">>

DownloadEntry(generationId, filename) ==
    [generationId |-> generationId, filename |-> filename, pc |-> "received",
     filePath |-> NoPath, code |-> 0, streamed |-> NoPath]

DownloadInputs == {DownloadEntry(g, f) : g \in ParamValues, f \in ParamValues}

\* index.js:1194-1200: the path is built and looked up
DownloadLookup ==
    /\ download.pc = "received"
    /\ LET filePath == PathJoin(tempDir, download.generationId, download.filename) IN
       download' = IF ~existsSync(filePath)
                   THEN [download EXCEPT !.pc = "answered", !.filePath = filePath, !.code = 404]
                   ELSE [download EXCEPT !.pc = "download", !.filePath = filePath]
    /\ UNCHANGED <<srvVars, rc, sampler, post, upload, client>>

\* index.js:1202: res.download(filePath) streams a regular file; for a
\* directory it passes an error on, which Express answers with 500
DownloadSend ==
    /\ download.pc = "download"
    /\ download' = IF download.filePath \in DiskFiles
                   THEN [download EXCEPT !.pc = "answered", !.code = 200,
                                         !.streamed = download.filePath]
                   ELSE [download EXCEPT !.pc = "answered", !.code = 500]
    /\ UNCHANGED <<srvVars, rc, sampler, post, upload, client>>

DownloadNext == DownloadLookup \/ DownloadSend

(***************************************************************************)
(* The server: task registry, POST handlers, background pipelines          *)
(***************************************************************************)

\* last clock value explored; Date.now().toString() ids are clock values
MaxClock == 1

\* last clock value explored when the retention sweep runs
SweepHorizon == 2

\* the model follows two accepted requests, the least that can interfere
Slots == {1, 2}

\* most frames the sampler returns in one run
MaxSampledFrames == 2

\* most frames of a video when the video pipeline is studied on its own
MaxVideoFrames == 3

\* 60 * 60 * 1000 ms, in clock ticks (index.js:1587 and 1605)
RetentionWindow == 1
SweepPeriod == 1

\* index.js:875
maxIterations == 3


\* markup: where it comes from ("caller": req.body.htmlContent, "improved":
\* the version-th improvement answer, "generated": the assembled page of
\* /generate-html) and whether it contains ``` or ```html fences
Markup(origin, version, fenced) == [origin |-> origin, version |-> version, fenced |-> fenced]

NoMarkup == Markup("none", 0, FALSE)

\* req.body.htmlContent of an accepted refinement request
HtmlContents == {Markup("caller", 0, FALSE), Markup("caller", 0, TRUE)}

\* variant of StripFences: only the leading ```html fence is removed, so a
\* fenced markup stays fenced
StripFencesLeading(html) == html

\* index.js:986 and 1005: html.replace(/```html|```/g, '')
StripFences(html) == [html EXCEPT !.fenced = FALSE]

NoResult ==
    [present |-> FALSE, zipDir |-> 0, iterationCount |-> 0, isMatch |-> FALSE,
     html |-> NoMarkup]

\* index.js:271-277 and 840-846: the record stored on acceptance
\* (message texts other than error texts are abstracted to "progress")
InitialTask(t) ==
    [status |-> "processing", progress |-> 0, message |-> "progress",
     startTime |-> t, iterationCount |-> 0, result |-> NoResult]

\* values thrown inside a pipeline: API errors carry a status, everything
\* else (TypeError, fs errors, ffmpeg errors) is an Error without one
PipelineErrors ==
    {[status |-> NoStatus, etype |-> Undefined],
     [status |-> 401, etype |-> Undefined],
     [status |-> 529, etype |-> "overloaded_error"]}

\* index.js:756-769: the message the catch block leaves on the record
ErrorMessage(error) ==
    IF error.status = 401 THEN "Invalid API key. Please check your Claude API key."
    ELSE IF error.status = 400 /\ error.etype = "invalid_request_error"
         THEN "Invalid request to Claude API. Please check your model selection."
    ELSE IF error.status = 429 THEN "Rate limit exceeded. Please try again later."
    ELSE IF error.status = 500 THEN "Claude API server error. Please try again later."
    ELSE IF error.status = 529 \/ error.etype = "overloaded_error"
         THEN "Claude API is currently overloaded. Please try again later or use a different model."
    ELSE "error.message"

\* activeTasks.set(id, rec)
MapSet(m, id, rec) == [x \in (DOMAIN m) \cup {id} |-> IF x = id THEN rec ELSE m[x]]

\* activeTasks.get(id).progress = v; activeTasks.get(id).message = `...`
Progress(tasks, id, v) == [tasks EXCEPT ![id].progress = v, ![id].message = "progress"]

\* variant of HasTask: records of finished tasks are treated as evicted
HasTaskEvicting(id) == id \in DOMAIN activeTasks /\ activeTasks[id].status = "processing"

\* activeTasks.has(id)
HasTask(id) == id \in DOMAIN activeTasks

\* no request was answered by the last step
NoAnswer == [to |-> "none", code |-> 0, taskId |-> 0, task |-> InitialTask(0)]

SweepIdle == [oneHourAgo |-> 0, readdir |-> FALSE, stats |-> {}, rms |-> {}]

\* a pipeline's local variables
NewPipe(route, isVideo, taskId, pc) ==
    [route |-> route, isVideo |-> isVideo, taskId |-> taskId, pc |-> pc,
     n |-> 0, i |-> 0, iterationCount |-> 0, isMatch |-> FALSE, genId |-> 0,
     currentHtml |-> NoMarkup,   \* let currentHtml (index.js:873)
     submitted |-> NoMarkup,     \* observed: the markup in the last critique call
     calls |-> << >>,            \* observed: the model calls of the refinement loop
     verdicts |-> << >>,         \* observed: whether each critique answer said "match"
     messages |-> << >>,         \* let messages (index.js:392), the conversation so far
     requests |-> << >>]         \* observed: the conversations sent by /generate-html

\* a turn of a conversation: the user turns hold frame `index`, the summary
\* prompt or the implementation prompt; an assistant turn is the reply to
\* the index-th model call of the pipeline, or the fixed text of index.js:415
Turn(role, kind, index) == [role |-> role, kind |-> kind, index |-> index]

FrameTurn(i) == Turn("user", "frame", i)

\* index.js:410-418: the assistant turn written by the server itself
CannedTurn == Turn("assistant", "canned", 0)

\* { role: "assistant", content: <reply>.content } for the reply to call k
ReplyTurn(k) == Turn("assistant", "reply", k)

\* callClaudeWithRetry(anthropic, {model, max_tokens, messages})
ModelCall(pipe, messages) ==
    [pipe EXCEPT !.messages = messages, !.requests = Append(@, messages)]

\* state right after `app.listen` (index.js:12-35, 1585, 1612)
ServerStart ==
    /\ now = 0
    /\ activeTasks = << >>
    /\ pipes = << >>
    /\ dirs = << >>
    /\ sweep = SweepIdle
    /\ crashed = FALSE
    /\ answer = NoAnswer
    /\ issued = {}

\* the process is running and the last answer has been handed to the client
Ready == ~crashed /\ answer = NoAnswer

Init ==
    /\ ServerStart
    /\ rc = RetryEntry(DefaultMaxRetries, DefaultInitialDelay)
    /\ sampler = SamplerEntry(1000, CallMaxFrames, CallMinInterval)
    /\ post = PostEntry(HtmlBodyHi, FALSE)
    /\ upload = UploadEntry("dropzone", "image/png", 1024)
    /\ client = ClientEntry("", "")
    /\ download = DownloadEntry(<<"1700">>, <<"ui-replication.zip">>)

Files == {"none", "image", "video"}

\* variant of RequestValid: the credential is not checked
RequestValidNoKey(route, hasKey, hasHtml, file) ==
    /\ file # "none"
    /\ route = "analyze-refine" => hasHtml

\* index.js:250-262 and 813-831: the checks that answer 400
RequestValid(route, hasKey, hasHtml, file) ==
    /\ hasKey
    /\ route = "analyze-refine" => hasHtml
    /\ file # "none"

\* a POST that is answered 400 (index.js:252, 261, 815, 824, 830)
PostRejected(route, hasKey, hasHtml, file) ==
    /\ Ready
    /\ ~RequestValid(route, hasKey, hasHtml, file)
    /\ answer' = [NoAnswer EXCEPT !.to = "post", !.code = 400]
    /\ UNCHANGED <<unitVars, now, activeTasks, pipes, dirs, sweep, crashed, issued>>

\* POST /generate-html accepted (index.js:265-324, 356): the record is
\* stored, the answer is sent, and the pipeline runs up to its first await
PostGenerateHtml(hasKey, file) ==
    /\ Ready
    /\ Len(pipes) < Cardinality(Slots)
    /\ RequestValid("generate-html", hasKey, FALSE, file)
    /\ LET taskId  == now
           isVideo == (file = "video")
           created == MapSet(activeTasks, taskId, InitialTask(now))
       IN /\ answer' = [to |-> "post", code |-> 200, taskId |-> taskId,
                        task |-> created[taskId]]
          /\ issued' = issued \cup {taskId}
          /\ activeTasks' = Progress(created, taskId, 10)
          /\ pipes' = Append(pipes,
                IF isVideo THEN NewPipe("generate-html", isVideo, taskId, "extract")
                ELSE ModelCall(NewPipe("generate-html", isVideo, taskId, "initialCall"),
                               <<FrameTurn(0)>>))
    /\ UNCHANGED <<unitVars, now, dirs, sweep, crashed>>

\* index.js:886-931: the critique call is issued with currentHtml in its
\* prompt
CritiqueCall(pipe, currentHtml) ==
    [pipe EXCEPT !.currentHtml = currentHtml,
                 !.submitted = currentHtml,
                 !.calls = Append(pipe.calls, "critique")]

\* POST /analyze-refine accepted (index.js:834-886): as above, up to the
\* first critique call of the loop
PostAnalyzeRefine(hasKey, hasHtml, file) ==
    /\ Ready
    /\ Len(pipes) < Cardinality(Slots)
    /\ RequestValid("analyze-refine", hasKey, hasHtml, file)
    /\ LET taskId  == now
           created == MapSet(activeTasks, taskId, InitialTask(now))
       IN /\ answer' = [to |-> "post", code |-> 200, taskId |-> taskId,
                        task |-> created[taskId]]
          /\ issued' = issued \cup {taskId}
          /\ activeTasks' = [Progress(created, taskId, 10) EXCEPT ![taskId].iterationCount = 1]
          /\ \E htmlContent \in HtmlContents :
                pipes' = Append(pipes,
                    CritiqueCall(NewPipe("analyze-refine", file = "video", taskId, "analysis"),
                                 htmlContent))
    /\ UNCHANGED <<unitVars, now, dirs, sweep, crashed>>

\* the error thrown by everything that is not an API error
InternalError == [status |-> NoStatus, etype |-> Undefined]

Running(p, pc) ==
    /\ Ready
    /\ p \in 1..Len(pipes)
    /\ pipes[p].pc = pc

\* index.js:751-769 and 1166-1182: the pipeline's catch block, applied to the
\* registry `tasks` as the failing step left it
Caught(tasks, p, error) ==
    /\ activeTasks' = [tasks EXCEPT ![pipes[p].taskId].status = "error",
                                    ![pipes[p].taskId].message = ErrorMessage(error)]
    /\ pipes' = [pipes EXCEPT ![p].pc = "failed"]

\* an exception thrown inside a callback that no promise wraps
\* (index.js:55-147, 113-122): nothing catches it and the process exits
Uncaught ==
    /\ crashed' = TRUE
    /\ UNCHANGED <<unitVars, now, activeTasks, pipes, dirs, sweep, issued>>
    /\ answer' = NoAnswer

\* index.js:47-58: tmpFile, tmpDir or writeFileSync throws, or ffprobe reports
\* an error: extractFramesFromVideo rejects
ExtractRejects(p) ==
    /\ Running(p, "extract")
    /\ Caught(activeTasks, p, InternalError)
    /\ UNCHANGED <<unitVars, now, dirs, sweep, crashed, issued>>
    /\ answer' = NoAnswer

\* index.js:61-99: the ffprobe callback itself throws (metadata.streams is
\* empty, or format.duration is not a number so duration.toFixed fails)
ProbeCallbackThrows(p) ==
    /\ Running(p, "extract")
    /\ Uncaught

\* index.js:61-127: the callback computes n timestamps and starts n screenshots
ProbeOk(p, n) ==
    /\ Running(p, "extract")
    /\ pipes' = [pipes EXCEPT ![p].pc = "frames", ![p].n = n]
    /\ UNCHANGED <<unitVars, now, activeTasks, dirs, sweep, crashed, issued>>
    /\ answer' = NoAnswer

\* index.js:113-122: an 'end' handler throws in fs.readFileSync
FrameEndThrows(p) ==
    /\ Running(p, "frames")
    /\ Uncaught

\* index.js:123-125 and 142-146: a screenshot emits 'error'
FrameError(p) ==
    /\ Running(p, "frames")
    /\ Caught(activeTasks, p, InternalError)
    /\ UNCHANGED <<unitVars, now, dirs, sweep, crashed, issued>>
    /\ answer' = NoAnswer

\* index.js:130-141 and 310-356: all frames are read, the pipeline goes on
\* to the first model call
FramesResolved(p) ==
    /\ Running(p, "frames")
    /\ activeTasks' = Progress(activeTasks, pipes[p].taskId, 20)
    /\ pipes' = [pipes EXCEPT ![p] = ModelCall([@ EXCEPT !.pc = "initialCall"], <<FrameTurn(0)>>)]
    /\ UNCHANGED <<unitVars, now, dirs, sweep, crashed, issued>>
    /\ answer' = NoAnswer

CallPcs == {"initialCall", "frameCall", "summaryCall", "finalCall", "analysis", "improve"}

\* callClaudeWithRetry throws, or the reply has no content[0].text
ModelCallFails(p, error) ==
    /\ Ready
    /\ p \in 1..Len(pipes)
    /\ pipes[p].pc \in CallPcs
    /\ Caught(activeTasks, p, error)
    /\ UNCHANGED <<unitVars, now, dirs, sweep, crashed, issued>>
    /\ answer' = NoAnswer

\* index.js:427: 40 + Math.floor((i / extractedFrames.length) * 20)
FrameProgress(i, n) == 40 + ((i * 20) \div n)

\* index.js:384-457: the first reply of a video with more than one frame
InitialCallOk(p) ==
    /\ Running(p, "initialCall")
    /\ pipes[p].isVideo /\ pipes[p].n > 1
    /\ activeTasks' = Progress(activeTasks, pipes[p].taskId, FrameProgress(1, pipes[p].n))
    /\ pipes' = [pipes EXCEPT ![p] = ModelCall([@ EXCEPT !.pc = "frameCall", !.i = 1],
                                               <<FrameTurn(0), CannedTurn, FrameTurn(1)>>)]
    /\ UNCHANGED <<unitVars, now, dirs, sweep, crashed, issued>>
    /\ answer' = NoAnswer

\* index.js:466-493: a frame reply; next frame, or the summary call
FrameCallOk(p) ==
    /\ Running(p, "frameCall")
    /\ LET i       == pipes[p].i + 1
           replied == Append(pipes[p].messages, ReplyTurn(Len(pipes[p].requests)))
       IN
       IF i < pipes[p].n
       THEN /\ activeTasks' = Progress(activeTasks, pipes[p].taskId, FrameProgress(i, pipes[p].n))
            /\ pipes' = [pipes EXCEPT ![p] = ModelCall([@ EXCEPT !.i = i],
                                                       Append(replied, FrameTurn(i)))]
       ELSE /\ activeTasks' = Progress(activeTasks, pipes[p].taskId, 60)
            /\ pipes' = [pipes EXCEPT ![p] =
                           ModelCall([@ EXCEPT !.i = i, !.pc = "summaryCall"],
                                     Append(replied, Turn("user", "summary", 0)))]
    /\ UNCHANGED <<unitVars, now, dirs, sweep, crashed, issued>>
    /\ answer' = NoAnswer

\* index.js:502-536: the summary reply; the implementation call is issued
SummaryCallOk(p) ==
    /\ Running(p, "summaryCall")
    /\ activeTasks' = Progress(activeTasks, pipes[p].taskId, 70)
    /\ pipes' = [pipes EXCEPT ![p] =
                   ModelCall([@ EXCEPT !.pc = "finalCall"],
                             pipes[p].messages \o <<ReplyTurn(Len(pipes[p].requests)),
                                                    Turn("user", "implementation", 0)>>)]
    /\ UNCHANGED <<unitVars, now, dirs, sweep, crashed, issued>>
    /\ answer' = NoAnswer

\* fs.mkdirSync(dir, { recursive: true }) at time t
MkdirRecursive(d, name, t) ==
    IF name \in DOMAIN d THEN d ELSE MapSet(d, name, [birth |-> t, zip |-> FALSE])

\* index.js:539-712: the last reply of the generation pipeline; post-processing
\* and the files are written synchronously, then the zip is awaited
GenPackage(p, fsOk) ==
    /\ Ready
    /\ p \in 1..Len(pipes)
    /\ \/ pipes[p].pc = "finalCall"
       \/ pipes[p].pc = "initialCall" /\ ~(pipes[p].isVideo /\ pipes[p].n > 1)
    /\ LET t      == pipes[p].taskId
           marked == Progress(activeTasks, t, 80)
       IN IF fsOk
          THEN /\ activeTasks' = marked
               /\ dirs' = MkdirRecursive(dirs, now, now)
               /\ pipes' = [pipes EXCEPT ![p].pc = "zip", ![p].genId = now]
          ELSE /\ Caught(marked, p, InternalError)
               /\ UNCHANGED dirs
    /\ UNCHANGED <<unitVars, now, sweep, crashed, issued>>
    /\ answer' = NoAnswer

\* index.js:736-749: result, then status, progress and message
Publish(tasks, p) ==
    [tasks EXCEPT ![pipes[p].taskId].result =
                      [present |-> TRUE, zipDir |-> pipes[p].genId,
                       iterationCount |-> 1, isMatch |-> FALSE,
                       html |-> Markup("generated", 0, FALSE)],
                  ![pipes[p].taskId].status = "completed",
                  ![pipes[p].taskId].progress = 100,
                  ![pipes[p].taskId].message = "progress"]

\* fs.writeFileSync of the archive into directory `name`
WriteZip(d, name) == [d EXCEPT ![name].zip = TRUE]

\* index.js:712-749: the archive is generated and written; a video writes its
\* frames and awaits a second archive
ZipOk(p, fsOk) ==
    /\ Running(p, "zip")
    /\ IF fsOk /\ pipes[p].genId \in DOMAIN dirs
       THEN /\ dirs' = WriteZip(dirs, pipes[p].genId)
            /\ IF pipes[p].isVideo /\ pipes[p].n > 0
               THEN /\ pipes' = [pipes EXCEPT ![p].pc = "zip2"]
                    /\ UNCHANGED activeTasks
               ELSE /\ pipes' = [pipes EXCEPT ![p].pc = "finished"]
                    /\ activeTasks' = Publish(activeTasks, p)
       ELSE /\ Caught(activeTasks, p, InternalError)
            /\ UNCHANGED dirs
    /\ UNCHANGED <<unitVars, now, sweep, crashed, issued>>
    /\ answer' = NoAnswer

\* index.js:732-749
Zip2Ok(p, fsOk) ==
    /\ Running(p, "zip2")
    /\ IF fsOk /\ pipes[p].genId \in DOMAIN dirs
       THEN /\ dirs' = WriteZip(dirs, pipes[p].genId)
            /\ pipes' = [pipes EXCEPT ![p].pc = "finished"]
            /\ activeTasks' = Publish(activeTasks, p)
       ELSE /\ Caught(activeTasks, p, InternalError)
            /\ UNCHANGED dirs
    /\ UNCHANGED <<unitVars, now, sweep, crashed, issued>>
    /\ answer' = NoAnswer

\* the answer of a critique call: the phrase of the match test it contains,
\* if any, and whether it is written in capitals
CritiqueText(phrase, capitals) == [phrase |-> phrase, capitals |-> capitals]

MatchPhrases == {"no further improvements", "95%+ accurate", "already very good match"}

CritiqueTexts ==
    {CritiqueText(ph, c) : ph \in MatchPhrases \cup {"other"}, c \in BOOLEAN}

\* observed: the answer contains one of the three phrases, in any letter case
SaysMatch(text) == text.phrase \in MatchPhrases

\* String.prototype.toLowerCase
toLowerCase(text) == [text EXCEPT !.capitals = FALSE]

\* String.prototype.includes, for a lower-case phrase
includes(text, phrase) == text.phrase = phrase /\ ~text.capitals

\* variant of isMatchText: the third phrase is not looked for
isMatchTextTwoPhrases(analysisText) ==
    \/ includes(toLowerCase(analysisText), "no further improvements")
    \/ includes(toLowerCase(analysisText), "95%+ accurate")

\* index.js:941-943: the match test on the critique answer
isMatchText(analysisText) ==
    \/ includes(toLowerCase(analysisText), "no further improvements")
    \/ includes(toLowerCase(analysisText), "95%+ accurate")
    \/ includes(toLowerCase(analysisText), "already very good match")

\* index.js:880: 10 + (iterationCount * 30)
progressBase(iterationCount) == 10 + (iterationCount * 30)

\* index.js:951: if (iterationCount >= maxIterations - 1) break
LastIteration(iterationCount) == iterationCount >= maxIterations - 1

\* index.js:934-957: a critique without a declared match, iterations left:
\* the improvement call is issued
AnalysisContinues(p, analysisText) ==
    /\ Running(p, "analysis")
    /\ ~isMatchText(analysisText)
    /\ ~LastIteration(pipes[p].iterationCount)
    /\ activeTasks' = Progress(activeTasks, pipes[p].taskId, progressBase(pipes[p].iterationCount) + 20)
    /\ pipes' = [pipes EXCEPT ![p].pc = "improve",
                              ![p].verdicts = Append(@, SaysMatch(analysisText)),
                              ![p].calls = Append(@, "improve")]
    /\ UNCHANGED <<unitVars, now, dirs, sweep, crashed, issued>>
    /\ answer' = NoAnswer

\* index.js:934-953 and 999-1149: the loop ends on a declared match or at the
\* last iteration; the record is marked completed, then the directory and
\* the files are written synchronously and the zip is awaited
AnalysisEnds(p, analysisText, fsOk) ==
    /\ Running(p, "analysis")
    /\ isMatchText(analysisText) \/ LastIteration(pipes[p].iterationCount)
    /\ LET t     == pipes[p].taskId
           match == isMatchText(analysisText)
           done  == [Progress(activeTasks, t, 100) EXCEPT ![t].status = "completed"]
       IN IF fsOk /\ t \notin DOMAIN dirs
          THEN /\ activeTasks' = done
               /\ dirs' = MapSet(dirs, t, [birth |-> now, zip |-> FALSE])
               /\ pipes' = [pipes EXCEPT ![p].pc = "rzip", ![p].isMatch = match, ![p].genId = t,
                                         ![p].verdicts = Append(@, SaysMatch(analysisText))]
          ELSE /\ activeTasks' = [done EXCEPT ![t].status = "error",
                                              ![t].message = ErrorMessage(InternalError)]
               /\ pipes' = [pipes EXCEPT ![p].pc = "failed", ![p].isMatch = match, ![p].genId = t,
                                         ![p].verdicts = Append(@, SaysMatch(analysisText))]
               /\ UNCHANGED dirs
    /\ UNCHANGED <<unitVars, now, sweep, crashed, issued>>
    /\ answer' = NoAnswer

\* index.js:982-996 and 878-886: the improved HTML arrives, the next
\* iteration starts and issues its critique call
ImproveOk(p) ==
    /\ Running(p, "improve")
    /\ LET k == pipes[p].iterationCount + 1 IN
       \* the loop condition of index.js:878; the break at 951 keeps it true here
       /\ k < maxIterations
       /\ activeTasks' = [Progress(activeTasks, pipes[p].taskId, progressBase(k))
                            EXCEPT ![pipes[p].taskId].iterationCount = k + 1]
       /\ \E fenced \in BOOLEAN :
            pipes' = [pipes EXCEPT ![p] =
                        CritiqueCall([@ EXCEPT !.pc = "analysis", !.iterationCount = k],
                                     StripFences(Markup("improved", k, fenced)))]
    /\ UNCHANGED <<unitVars, now, dirs, sweep, crashed, issued>>
    /\ answer' = NoAnswer

\* index.js:1149-1164: the archive is written and the result is stored
RefineZipOk(p, fsOk) ==
    /\ Running(p, "rzip")
    /\ IF fsOk /\ pipes[p].genId \in DOMAIN dirs
       THEN /\ dirs' = WriteZip(dirs, pipes[p].genId)
            /\ pipes' = [pipes EXCEPT ![p].pc = "finished"]
            /\ activeTasks' = [activeTasks EXCEPT ![pipes[p].taskId].result =
                                 [present |-> TRUE, zipDir |-> pipes[p].genId,
                                  iterationCount |-> pipes[p].iterationCount,
                                  isMatch |-> pipes[p].isMatch,
                                  html |-> StripFences(pipes[p].currentHtml)]]
       ELSE /\ Caught(activeTasks, p, InternalError)
            /\ UNCHANGED dirs
    /\ UNCHANGED <<unitVars, now, sweep, crashed, issued>>
    /\ answer' = NoAnswer

(***************************************************************************)
(* GET /task-status/:taskId, the retention sweep, the clock                *)
(***************************************************************************)

\* variant of StatusView: the record is reported as stored
StatusViewRaw(task) == task

\* index.js:797-801: a record with a result is marked completed
StatusView(task) ==
    IF task.result.present
    THEN [task EXCEPT !.status = "completed", !.progress = 100]
    ELSE task

\* index.js:779-807
TaskStatus(id) ==
    /\ Ready
    /\ IF ~HasTask(id)
       THEN /\ answer' = [NoAnswer EXCEPT !.to = "status", !.code = 404, !.taskId = id]
            /\ UNCHANGED activeTasks
       ELSE LET task == StatusView(activeTasks[id]) IN
            /\ activeTasks' = [activeTasks EXCEPT ![id] = task]
            /\ answer' = [to |-> "status", code |-> 200, taskId |-> id, task |-> task]
    /\ UNCHANGED <<unitVars, now, pipes, dirs, sweep, crashed, issued>>

\* a sweep whose callbacks have all run leaves nothing behind
SweepSettle(sw) == IF sw.stats = {} /\ sw.rms = {} /\ ~sw.readdir THEN SweepIdle ELSE sw

\* variant of OneHourAgo: no retention window is subtracted
OneHourAgoNoWindow(t) == t

\* index.js:1587: Date.now() - 60 * 60 * 1000
OneHourAgo(t) == t - RetentionWindow

\* index.js:1586-1589: the hourly timer fires and calls fs.readdir
SweepTimer ==
    /\ Ready
    /\ now >= SweepPeriod
    /\ ~sweep.readdir /\ sweep.stats = {} /\ sweep.rms = {}
    /\ sweep' = [sweep EXCEPT !.oneHourAgo = OneHourAgo(now),
                              !.readdir = TRUE]
    /\ UNCHANGED <<unitVars, now, activeTasks, pipes, dirs, crashed, issued>>
    /\ answer' = NoAnswer

\* index.js:1589-1594: the readdir callback calls fs.stat on every entry
SweepReaddir ==
    /\ Ready
    /\ sweep.readdir
    /\ sweep' = SweepSettle([sweep EXCEPT !.readdir = FALSE, !.stats = DOMAIN dirs])
    /\ UNCHANGED <<unitVars, now, activeTasks, pipes, dirs, crashed, issued>>
    /\ answer' = NoAnswer

\* variant of Expired: the comparison is turned round
ExpiredInverted(birthtimeMs, oneHourAgo) == birthtimeMs > oneHourAgo

\* index.js:1597: stats.birthtimeMs < oneHourAgo
Expired(birthtimeMs, oneHourAgo) == birthtimeMs < oneHourAgo

\* index.js:1594-1601: a stat callback; an old directory gets fs.rm
SweepStat(d) ==
    /\ Ready
    /\ d \in sweep.stats
    /\ sweep' = SweepSettle([sweep EXCEPT !.stats = @ \ {d},
                              !.rms = IF d \in DOMAIN dirs /\ Expired(dirs[d].birth, sweep.oneHourAgo)
                                      THEN @ \cup {d} ELSE @])
    /\ UNCHANGED <<unitVars, now, activeTasks, pipes, dirs, crashed, issued>>
    /\ answer' = NoAnswer

\* index.js:1598: fs.rm(filePath, { recursive: true, force: true })
SweepRm(d) ==
    /\ Ready
    /\ d \in sweep.rms
    /\ sweep' = SweepSettle([sweep EXCEPT !.rms = @ \ {d}])
    /\ dirs' = [x \in (DOMAIN dirs) \ {d} |-> dirs[x]]
    /\ UNCHANGED <<unitVars, now, activeTasks, pipes, crashed, issued>>
    /\ answer' = NoAnswer

\* the answer reaches the client
Deliver ==
    /\ answer # NoAnswer
    /\ answer' = NoAnswer
    /\ UNCHANGED <<unitVars, now, activeTasks, pipes, dirs, sweep, crashed, issued>>

\* the clock advances, up to `limit`
Tick(limit) ==
    /\ Ready
    /\ now < limit
    /\ now' = now + 1
    /\ UNCHANGED <<unitVars, activeTasks, pipes, dirs, sweep, crashed, issued>>
    /\ answer' = NoAnswer

Routes == {"generate-html", "analyze-refine"}

\* req.body.htmlContent is read by /analyze-refine only
HtmlFields(route) == IF route = "analyze-refine" THEN BOOLEAN ELSE {FALSE}

Next ==
    \/ \E r \in Routes, k \in BOOLEAN, f \in Files : \E h \in HtmlFields(r) : PostRejected(r, k, h, f)
    \/ \E k \in BOOLEAN, f \in Files : PostGenerateHtml(k, f)
    \/ \E k \in BOOLEAN, h \in HtmlFields("analyze-refine"), f \in Files : PostAnalyzeRefine(k, h, f)
    \/ \E p \in Slots : ExtractRejects(p)
    \/ \E p \in Slots : ProbeCallbackThrows(p)
    \/ \E p \in Slots, n \in 1..MaxSampledFrames : ProbeOk(p, n)
    \/ \E p \in Slots : FrameEndThrows(p)
    \/ \E p \in Slots : FrameError(p)
    \/ \E p \in Slots : FramesResolved(p)
    \/ \E p \in Slots, e \in PipelineErrors : ModelCallFails(p, e)
    \/ \E p \in Slots : InitialCallOk(p)
    \/ \E p \in Slots : FrameCallOk(p)
    \/ \E p \in Slots : SummaryCallOk(p)
    \/ \E p \in Slots, ok \in BOOLEAN : GenPackage(p, ok)
    \/ \E p \in Slots, ok \in BOOLEAN : ZipOk(p, ok)
    \/ \E p \in Slots, ok \in BOOLEAN : Zip2Ok(p, ok)
    \/ \E p \in Slots, text \in CritiqueTexts : AnalysisContinues(p, text)
    \/ \E p \in Slots, text \in CritiqueTexts, ok \in BOOLEAN : AnalysisEnds(p, text, ok)
    \/ \E p \in Slots : ImproveOk(p)
    \/ \E p \in Slots, ok \in BOOLEAN : RefineZipOk(p, ok)
    \/ \E id \in 0..MaxClock : TaskStatus(id)
    \/ Deliver
    \/ Tick(MaxClock)

Spec == Init /\ [][Next]_vars

\* the server with its retention sweep, fed with image requests
SweepNext ==
    \/ PostGenerateHtml(TRUE, "image")
    \/ PostAnalyzeRefine(TRUE, TRUE, "image")
    \/ \E p \in Slots, e \in PipelineErrors : ModelCallFails(p, e)
    \/ \E p \in Slots, ok \in BOOLEAN : GenPackage(p, ok)
    \/ \E p \in Slots, ok \in BOOLEAN : ZipOk(p, ok)
    \/ \E p \in Slots, text \in CritiqueTexts : AnalysisContinues(p, text)
    \/ \E p \in Slots, text \in CritiqueTexts, ok \in BOOLEAN : AnalysisEnds(p, text, ok)
    \/ \E p \in Slots : ImproveOk(p)
    \/ \E p \in Slots, ok \in BOOLEAN : RefineZipOk(p, ok)
    \/ \E id \in 0..SweepHorizon : TaskStatus(id)
    \/ SweepTimer
    \/ SweepReaddir
    \/ \E d \in 0..SweepHorizon : SweepStat(d)
    \/ \E d \in 0..SweepHorizon : SweepRm(d)
    \/ Deliver
    \/ Tick(SweepHorizon)

SpecSweep == Init /\ [][SweepNext]_vars

\* the server fed with refinement requests only
RefineNext ==
    \/ \E f \in {"image", "video"} : PostAnalyzeRefine(TRUE, TRUE, f)
    \/ \E p \in Slots, e \in PipelineErrors : ModelCallFails(p, e)
    \/ \E p \in Slots, text \in CritiqueTexts : AnalysisContinues(p, text)
    \/ \E p \in Slots, text \in CritiqueTexts, ok \in BOOLEAN : AnalysisEnds(p, text, ok)
    \/ \E p \in Slots : ImproveOk(p)
    \/ \E p \in Slots, ok \in BOOLEAN : RefineZipOk(p, ok)
    \/ \E id \in 0..MaxClock : TaskStatus(id)
    \/ Deliver
    \/ Tick(MaxClock)

SpecRefine == Init /\ [][RefineNext]_vars

\* the server fed with video generation requests only
VideoNext ==
    \/ PostGenerateHtml(TRUE, "video")
    \/ \E p \in Slots, n \in 1..MaxVideoFrames : ProbeOk(p, n)
    \/ \E p \in Slots : FramesResolved(p)
    \/ \E p \in Slots, e \in PipelineErrors : ModelCallFails(p, e)
    \/ \E p \in Slots : InitialCallOk(p)
    \/ \E p \in Slots : FrameCallOk(p)
    \/ \E p \in Slots : SummaryCallOk(p)
    \/ \E p \in Slots, ok \in BOOLEAN : GenPackage(p, ok)
    \/ \E p \in Slots, ok \in BOOLEAN : ZipOk(p, ok)
    \/ \E p \in Slots, ok \in BOOLEAN : Zip2Ok(p, ok)
    \/ Deliver
    \/ Tick(MaxClock)

SpecVideo == Init /\ [][VideoNext]_vars

RetryInit ==
    /\ rc \in RetryInputs
    /\ sampler = SamplerEntry(1000, CallMaxFrames, CallMinInterval)
    /\ post = PostEntry(HtmlBodyHi, FALSE)
    /\ upload = UploadEntry("dropzone", "image/png", 1024)
    /\ client = ClientEntry("", "")
    /\ download = DownloadEntry(<<"1700">>, <<"ui-replication.zip">>)
    /\ ServerStart

SamplerInit ==
    /\ sampler \in SamplerInputs
    /\ post = PostEntry(HtmlBodyHi, FALSE)
    /\ upload = UploadEntry("dropzone", "image/png", 1024)
    /\ client = ClientEntry("", "")
    /\ download = DownloadEntry(<<"1700">>, <<"ui-replication.zip">>)
    /\ rc = RetryEntry(DefaultMaxRetries, DefaultInitialDelay)
    /\ ServerStart

SpecSampler == SamplerInit /\ [][SamplerNext]_vars

PostInit ==
    /\ post \in PostInputs
    /\ upload = UploadEntry("dropzone", "image/png", 1024)
    /\ client = ClientEntry("", "")
    /\ download = DownloadEntry(<<"1700">>, <<"ui-replication.zip">>)
    /\ sampler = SamplerEntry(1000, CallMaxFrames, CallMinInterval)
    /\ rc = RetryEntry(DefaultMaxRetries, DefaultInitialDelay)
    /\ ServerStart

SpecPost == PostInit /\ [][PostNext]_vars

\* every unit but the named ones at its fixed starting value
UnitsIdle ==
    /\ rc = RetryEntry(DefaultMaxRetries, DefaultInitialDelay)
    /\ sampler = SamplerEntry(1000, CallMaxFrames, CallMinInterval)
    /\ post = PostEntry(HtmlBodyHi, FALSE)
    /\ download = DownloadEntry(<<"1700">>, <<"ui-replication.zip">>)

UploadInit ==
    /\ upload \in UploadInputs
    /\ client = ClientEntry("", "")
    /\ UnitsIdle
    /\ ServerStart

SpecUpload == UploadInit /\ [][UploadNext]_vars

ClientInit ==
    /\ client \in {ClientEntry(stored, storedModel) :
                    stored \in ApiKeys, storedModel \in Models \cup {""}}
    /\ upload = UploadEntry("dropzone", "image/png", 1024)
    /\ UnitsIdle
    /\ ServerStart

SpecClient == ClientInit /\ [][ClientNext]_vars

\* the application after a first successful generation: key loaded from
\* localStorage, a file uploaded, the generated page shown
AfterGeneration ==
    [ClientEntry("sk-ant-key", "") EXCEPT
        !.pc = "ready", !.apiKey = "sk-ant-key", !.media = TRUE,
        !.htmlContent = "generated", !.server.generation = "completed",
        !.toast = Toast("Success", NoClosure),
        !.request = Request("task-status", "", "")]

PollingInit ==
    /\ client = AfterGeneration
    /\ upload = UploadEntry("dropzone", "image/png", 1024)
    /\ UnitsIdle
    /\ ServerStart

\* generation, refinement and retries, without the settings panel
PollingNext ==
    \/ ClientUpload
    \/ \E ok \in BOOLEAN : ClientGenerate(ok)
    \/ \E kind \in {"generation", "refinement"}, outcome \in StatusOutcomes :
          ServerSettles(kind, outcome)
    \/ ClientPoll
    \/ ClientPollAnalysis
    \/ ClientRetry
    \/ ClientRetryPanel
    \/ \E ok \in BOOLEAN : ClientRetryTimer(ok)
    \/ \E ok \in BOOLEAN : ClientAnalyze(ok)

\* timers that are set fire (setInterval, setTimeout); the user and the
\* server are not obliged to act
SpecPolling ==
    /\ PollingInit
    /\ [][PollingNext]_vars
    /\ WF_vars(ClientPoll)
    /\ WF_vars(ClientPollAnalysis)
    /\ WF_vars(\E ok \in BOOLEAN : ClientRetryTimer(ok))

SpecRetry == RetryInit /\ [][RetryNext]_vars

DownloadInit ==
    /\ download \in DownloadInputs
    /\ rc = RetryEntry(DefaultMaxRetries, DefaultInitialDelay)
    /\ sampler = SamplerEntry(1000, CallMaxFrames, CallMinInterval)
    /\ post = PostEntry(HtmlBodyHi, FALSE)
    /\ upload = UploadEntry("dropzone", "image/png", 1024)
    /\ client = ClientEntry("", "")
    /\ ServerStart

SpecDownload == DownloadInit /\ [][DownloadNext]_vars

(***************************************************************************)
(* Properties of the task registry and the pipelines                       *)
(***************************************************************************)

\* what GET /task-status/:id answers in the current state
Polled(tasks, id) == StatusView(tasks[id])

\* C1: for every task id, the progress a status query reports never goes
\* down from one moment to the next while the reported status is processing.
C1_ProgressNeverDecreases ==
    [][\A id \in DOMAIN activeTasks :
         (/\ id \in DOMAIN activeTasks'
          /\ Polled(activeTasks, id).status = "processing"
          /\ Polled(activeTasks', id).status = "processing")
         => Polled(activeTasks', id).progress >= Polled(activeTasks, id).progress]_vars

\* C2: a status query is answered 404 exactly when no accepted request ever
\* returned the id, and with the task record otherwise, whatever the
\* pipelines and the retention sweep have done since.
C2_IssuedIdsStayKnown ==
    answer.to = "status" =>
        /\ answer.code \in {200, 404}
        /\ answer.code = 200 <=> answer.taskId \in issued

\* a finished task is still reported after the sweep removed its directory
C2_Witness ==
    /\ answer.to = "status"
    /\ answer.code = 200
    /\ answer.task.result.present
    /\ answer.task.result.zipDir \notin DOMAIN dirs

\* C3: a status answer carries a result only together with status completed.
C3_ResultOnlyWhenCompleted ==
    (answer.to = "status" /\ answer.code = 200 /\ answer.task.result.present)
        => answer.task.status = "completed"

\* a record that holds a result and was last written by a failing pipeline
\* is answered as completed
C3_Witness ==
    /\ answer.to = "status"
    /\ answer.code = 200
    /\ answer.task.result.present
    /\ answer.task.status = "completed"
    /\ \E p \in 1..Len(pipes) : pipes[p].taskId = answer.taskId /\ pipes[p].pc = "failed"

\* C4: once no pipeline working on a task id can take another step, the
\* task's status is completed or error: no task stays in processing.
C4_TaskSettles ==
    \A id \in DOMAIN activeTasks :
        (\A p \in 1..Len(pipes) :
            pipes[p].taskId = id => (crashed \/ pipes[p].pc \in {"finished", "failed"}))
        => activeTasks[id].status \in {"completed", "error"}

\* C5: no failure escapes the pipeline, and a pipeline that failed has left
\* status error, a non-empty message and no result on its record.
C5_FailuresRecorded ==
    /\ ~crashed
    /\ \A p \in 1..Len(pipes) :
          pipes[p].pc = "failed" =>
              /\ activeTasks[pipes[p].taskId].status = "error"
              /\ activeTasks[pipes[p].taskId].message # ""
              /\ ~activeTasks[pipes[p].taskId].result.present

\* the requests the contract accepts: credential, media file and, for
\* refinement, the current HTML
Acceptable(route, hasKey, hasHtml, file) ==
    /\ hasKey
    /\ file \in {"image", "video"}
    /\ route = "analyze-refine" => hasHtml

TransientSignal(e) ==
    \/ e.status = 529
    \/ e.etype = "overloaded_error"
    \/ e.status = 429
    \/ e.status \in {s \in ErrorStatuses : s > 499}

AllTransient(es) == \A i \in 1..Len(es) : TransientSignal(es[i])

\* C7: when the wrapped operation has raised a retryable error on each of its
\* first k invocations, k < maxRetries, the call has not given up, and if
\* invocation k+1 succeeded the call returned after exactly k+1 invocations
\* and exactly k backoff waits.
C7_SuccessAfterKRetries ==
    LET k == Len(rc.raised) IN
    (AllTransient(rc.raised) /\ k < rc.maxRetries) =>
        /\ rc.pc # "thrown"
        /\ rc.pc = "returned" => (rc.invocations = k + 1 /\ Len(rc.waits) = k)

\* two overload errors, then success, with the default maxRetries
C7_Witness ==
    /\ rc.pc = "returned"
    /\ rc.maxRetries = DefaultMaxRetries
    /\ Len(rc.raised) = 2
    /\ \A i \in 1..2 : rc.raised[i].status = 529
    /\ rc.invocations = 3
    /\ Len(rc.waits) = 2

C9_CappedLastErrorSurfaced ==
    LET n == Len(rc.raised) IN
    /\ rc.invocations <= rc.maxRetries
    /\ (rc.pc = "thrown" /\ n > 0 /\ AllTransient(rc.raised)) =>
          /\ n = rc.maxRetries
          /\ rc.thrown = rc.raised[n]

\* three retryable failures with different errors; the third is thrown
C9_Witness ==
    /\ rc.pc = "thrown"
    /\ rc.maxRetries = DefaultMaxRetries
    /\ Len(rc.raised) = 3
    /\ AllTransient(rc.raised)
    /\ rc.raised[1] # rc.raised[3]
    /\ rc.raised[2] # rc.raised[3]
    /\ rc.thrown = rc.raised[3]

\* C10: the first backoff wait lasts initialDelay and every later wait is
\* exactly twice the one before it.
C10_BackoffDoubles ==
    \A i \in 1..Len(rc.waits) :
        IF i = 1 THEN rc.waits[i] = rc.initialDelay
                 ELSE rc.waits[i] = 2 * rc.waits[i - 1]

\* the default schedule 2000, 4000, 8000
C10_Witness == rc.waits = <<2000, 4000, 8000>>

(***************************************************************************)
(* Properties of the refinement loop                                       *)
(***************************************************************************)

\* the refinement pipelines whose loop has ended and marked the task completed
LoopCompleted(p) ==
    /\ pipes[p].route = "analyze-refine"
    /\ pipes[p].pc \in {"rzip", "finished"}

Critiques(p) == Cardinality({i \in DOMAIN pipes[p].calls : pipes[p].calls[i] = "critique"})

\* the k-th critique is the last model call of the loop
NothingFollowsCritique(p, k) ==
    /\ k = Critiques(p)
    /\ pipes[p].calls[Len(pipes[p].calls)] = "critique"

\* C11 as stated: a completed refinement loop made at most 3 critique calls;
\* it made fewer than 3 exactly when some critique satisfied the match test;
\* and no model call follows a critique that satisfied it.
C11_StopsEarlyIffAnyMatch ==
    \A p \in 1..Len(pipes) :
        LoopCompleted(p) =>
            /\ Critiques(p) <= 3
            /\ Critiques(p) < 3 <=> \E k \in DOMAIN pipes[p].verdicts : pipes[p].verdicts[k]
            /\ \A k \in DOMAIN pipes[p].verdicts :
                  pipes[p].verdicts[k] => NothingFollowsCritique(p, k)

\* C11 amended: a completed refinement loop made at most 3 critique calls;
\* it made fewer than 3 exactly when the first or the second critique
\* satisfied the match test; and no model call follows a critique that
\* satisfied it.
C11_StopsEarlyIffEarlyMatch ==
    \A p \in 1..Len(pipes) :
        LoopCompleted(p) =>
            /\ Critiques(p) <= 3
            /\ Len(pipes[p].verdicts) = Critiques(p)
            /\ Critiques(p) < 3 <=>
                  \E k \in DOMAIN pipes[p].verdicts : k < 3 /\ pipes[p].verdicts[k]
            /\ \A k \in DOMAIN pipes[p].verdicts :
                  pipes[p].verdicts[k] => NothingFollowsCritique(p, k)

\* a loop that stopped on a match of its second critique, and one that ran
\* its three critiques with a match on the third
C11_Witness ==
    /\ \E p \in 1..Len(pipes) :
          LoopCompleted(p) /\ pipes[p].verdicts = <<FALSE, TRUE>>
    /\ \E p \in 1..Len(pipes) :
          LoopCompleted(p) /\ pipes[p].verdicts = <<FALSE, FALSE, TRUE>>

\* C12 as stated: the markup in the result a refinement pipeline publishes
\* is exactly the markup it submitted to its last critique.
C12_PublishesSubmittedMarkup ==
    [][\A p \in 1..Len(pipes) :
          (pipes[p].pc = "rzip" /\ pipes'[p].pc = "finished")
          => activeTasks'[pipes[p].taskId].result.html = pipes[p].submitted]_vars

\* C12 amended: the markup in the result a refinement pipeline publishes is
\* the markup it submitted to its last critique with the code fences
\* removed: the caller's HTML when the first critique declares a match, else
\* the latest improved version, which is the second one when three
\* critiques were made.
C12_PublishesSubmittedMarkupStripped ==
    [][\A p \in 1..Len(pipes) :
          (pipes[p].pc = "rzip" /\ pipes'[p].pc = "finished")
          => LET html == activeTasks'[pipes[p].taskId].result.html
                 k    == Critiques(p)
             IN /\ html = [pipes[p].submitted EXCEPT !.fenced = FALSE]
                /\ k = 1 => html.origin = "caller"
                /\ k > 1 => html = Markup("improved", k - 1, FALSE)
                /\ (k = 3 /\ ~pipes[p].isMatch) => html = Markup("improved", 2, FALSE)]_vars

\* a result published from a fenced caller HTML after a first-critique
\* match, next to one published after three critiques without a match
C12_Witness ==
    \E p, q \in 1..Len(pipes) :
        /\ pipes[p].route = "analyze-refine" /\ pipes[p].pc = "finished"
        /\ pipes[p].submitted = Markup("caller", 0, TRUE)
        /\ activeTasks[pipes[p].taskId].result.html = Markup("caller", 0, FALSE)
        /\ pipes[q].route = "analyze-refine" /\ pipes[q].pc = "finished"
        /\ pipes[q].verdicts = <<FALSE, FALSE, FALSE>>
        /\ pipes[q].taskId # pipes[p].taskId

(***************************************************************************)
(* Properties of the frame sampler                                         *)
(***************************************************************************)

\* C13: a sampler run returns min(ceil(D / 0.3), maxFrames) frames for
\* D <= 5 s, min(ceil(D / 0.5), maxFrames) frames for 5 s < D <= 15 s, and
\* maxFrames frames for D > 15 s.
C13_FrameCountByDuration ==
    sampler.pc = "returned" =>
        LET D == sampler.duration IN
        sampler.frames =
            IF D <= 5000 THEN Min(CeilDiv(D, 300), sampler.maxFrames)
            ELSE IF D <= 15000 THEN Min(CeilDiv(D, 500), sampler.maxFrames)
            ELSE sampler.maxFrames

\* a / b < c for a fraction a / b with b > 0
FracLess(t, c) == t.num < c * t.den

FracLeq(t, c) == t.num <= c * t.den

C16_DistinctTaskIds ==
    \A p, q \in 1..Len(pipes) : p # q => pipes[p].taskId # pipes[q].taskId

(***************************************************************************)
(* Properties of the post-processing                                       *)
(***************************************************************************)

\* C17: for the answer "<html><body><p>Hi</p></body></html>" the extracted
\* fragment is "<p>Hi</p>" and the assembled document is the fixed head
\* followed by a body that holds exactly that fragment.
C17_FragmentOfHtmlBodyHi ==
    (post.htmlContent = HtmlBodyHi /\ post.pc = "assembled")
    => /\ post.cleanedHtmlContent = <<"<p>Hi</p>">>
       /\ post.completeHtml.head = "boilerplate"
       /\ post.completeHtml.body = <<"<p>Hi</p>">>

\* a text without an html pair, a body pair and a fenced html block
NoHtmlFound(text) ==
    /\ ~\E i, j \in DOMAIN text : i < j /\ text[i] = "<html>" /\ text[j] = "</html>"
    /\ ~\E i, j \in DOMAIN text : i < j /\ text[i] = "<body>" /\ text[j] = "</body>"
    /\ ~\E i, j \in DOMAIN text :
           i + 1 < j /\ text[i] = "FENCE" /\ text[i + 1] = "html" /\ text[j] = "FENCE"

\* a style block or a css fence, closed
HasCss(text) ==
    \/ \E i, j \in DOMAIN text : i < j /\ text[i] = "<style>" /\ text[j] = "</style>"
    \/ \E i, j \in DOMAIN text :
           i + 1 < j /\ text[i] = "FENCE" /\ text[i + 1] = "css" /\ text[j] = "FENCE"

\* a script block or a js fence, closed
HasJs(text) ==
    \/ \E i, j \in DOMAIN text : i < j /\ text[i] = "<script>" /\ text[j] = "</script>"
    \/ \E i, j \in DOMAIN text :
           i + 1 < j /\ text[i] = "FENCE" /\ text[i + 1] \in {"js", "javascript"}
           /\ text[j] = "FENCE"

\* C18: for an answer without an html pair, a body pair and a fenced html
\* block, the whole answer is the HTML fragment, the stylesheet is empty
\* unless there is a style block or css fence, the script is empty unless
\* there is a script block or js fence, and the run reaches its end.
C18_FallbackUsesWholeText ==
    (NoHtmlFound(post.htmlContent) /\ post.pc \in {"clean", "assemble", "assembled"})
    => /\ post.cleanedHtmlContent = post.htmlContent
       /\ ~HasCss(post.htmlContent) => post.styleContent = << >>
       /\ ~HasJs(post.htmlContent) => post.scriptContent = << >>

\* a run on an answer of the greatest length that carries a style block and
\* no script
C18_Witness ==
    /\ post.pc = "assembled"
    /\ NoHtmlFound(post.htmlContent)
    /\ Len(post.htmlContent) = MaxTextLen
    /\ post.htmlContent[1] = "<style>"
    /\ post.styleContent # << >>
    /\ post.scriptContent = << >>
    /\ post.cleanedHtmlContent = post.htmlContent

(***************************************************************************)
(* Properties of media ingestion and of the browser application            *)
(***************************************************************************)

\* the ceiling for the file's kind: 5 MB for an image, 50 MB for a video
WithinCeiling(type, size) ==
    \/ startsWith(type, "image/") /\ size <= 5 * MB
    \/ startsWith(type, "video/") /\ size <= 50 * MB

\* C19: a file is accepted (a task is started for it) only if its MIME type
\* starts with image/ or video/ and its size is within the ceiling for its
\* kind; any other file is answered with a client error, starts no task
\* and is not sent to the model as an image.
C19_OnlyAllowedMediaAccepted ==
    /\ upload.taskStarted => WithinCeiling(upload.type, upload.size)
    /\ (upload.pc = "answered" /\ ~WithinCeiling(upload.type, upload.size))
          => /\ upload.code \in 400..499
             /\ ~upload.taskStarted
             /\ ~upload.asImage

\* C20: no request the application sends to its server carries the API key.
C20_KeyStaysInBrowser ==
    client.request.apiKey = ""

(***************************************************************************)
(* Properties of the video conversation                                    *)
(***************************************************************************)

\* the prompt that closes the k-th conversation of a video with n frames
ExpectedPrompt(k, n) ==
    IF k <= n THEN FrameTurn(k - 1)
    ELSE IF k = n + 1 THEN Turn("user", "summary", 0)
    ELSE Turn("user", "implementation", 0)

\* the calls are issued in order: frame 0, frames 1..n-1, summary,
\* implementation, each prompt for the first time in its own call
CallsInOrder(p) ==
    LET R == pipes[p].requests
        n == pipes[p].n
    IN /\ Len(R) <= n + 2
       /\ pipes[p].pc \in {"zip", "zip2", "finished"} => Len(R) = n + 2
       /\ \A k \in 1..Len(R) :
             /\ R[k][Len(R[k])] = ExpectedPrompt(k, n)
             /\ \A j \in 1..(k - 1) : \A x \in 1..Len(R[j]) : R[j][x] # ExpectedPrompt(k, n)

\* a conversation starts with a user turn, alternates and ends with one
Alternates(conv) ==
    /\ Len(conv) % 2 = 1
    /\ \A x \in 1..Len(conv) :
          conv[x].role = IF x % 2 = 1 THEN "user" ELSE "assistant"

\* the conversation holds the model's reply to every earlier frame call
HoldsFrameReplies(p, k) ==
    \A j \in 1..(k - 1) :
        j <= pipes[p].n => \E x \in 1..Len(pipes[p].requests[k]) :
                              pipes[p].requests[k][x] = ReplyTurn(j)

\* C21: for a video with n > 1 frames the calls are issued in the order
\* frame 0, frames 1..n-1, summary, implementation (n + 2 in all), and every
\* conversation from the second call on starts with a user turn, alternates,
\* ends with a user turn and holds the model's reply to every earlier frame
\* turn.
C21_VideoConversation ==
    \A p \in 1..Len(pipes) :
        (pipes[p].isVideo /\ pipes[p].n > 1 /\ pipes[p].requests # << >>) =>
            /\ CallsInOrder(p)
            /\ \A k \in 2..Len(pipes[p].requests) :
                  /\ Alternates(pipes[p].requests[k])
                  /\ HoldsFrameReplies(p, k)

(***************************************************************************)
(* Spacing of the sampled timestamps                                       *)
(***************************************************************************)

\* u - t >= c for fractions t and u with positive denominators
FracApart(t, u, c) == u.num * t.den - t.num * u.den >= c * t.den * u.den

\* C22: for every duration and every sampler configuration, any two
\* consecutive sampled timestamps are at least minInterval apart.
C22_SpacingAtLeastMinInterval ==
    sampler.pc = "returned" =>
        \A k \in 1..(Len(sampler.timestamps) - 1) :
            FracApart(sampler.timestamps[k], sampler.timestamps[k + 1], sampler.minInterval)

(***************************************************************************)
(* Properties of the artifact directories                                  *)
(***************************************************************************)

\* the pipeline has created or adopted its artifact directory
HasDirectory(p) == pipes[p].pc \in {"zip", "zip2", "rzip", "finished"}

\* C23: two distinct tasks never use the same artifact directory, and the
\* zipPath of a task's result names the directory of that task's pipeline.
C23_OwnDirectory ==
    /\ \A p, q \in 1..Len(pipes) :
          (/\ p # q
           /\ pipes[p].taskId # pipes[q].taskId
           /\ HasDirectory(p) /\ HasDirectory(q))
          => pipes[p].genId # pipes[q].genId
    /\ \A p \in 1..Len(pipes) :
          (/\ pipes[p].pc = "finished"
           /\ \A q \in 1..Len(pipes) : q # p => pipes[q].taskId # pipes[p].taskId)
          => activeTasks[pipes[p].taskId].result.zipDir = pipes[p].genId

\* the pipeline still has writes to perform in its artifact directory
WritesPending(p) == pipes[p].pc \in {"zip", "zip2", "rzip"}

\* C24: when the sweep removes a directory in which its pipeline still has
\* writes to perform, that directory is older than the retention window; a
\* packaging phase shorter than the window is never raced.
C24_SweepSparesWritingTasks ==
    [][\A d \in DOMAIN dirs :
         (/\ d \notin DOMAIN dirs'
          /\ \E p \in 1..Len(pipes) : WritesPending(p) /\ pipes[p].genId = d)
         => now - dirs[d].birth > RetentionWindow]_vars

\* a sweep has looked at two directories: it removes the old one and keeps
\* the one, created before the sweep began, whose pipeline is still writing
C24_Witness ==
    \E p \in 1..Len(pipes) : \E old \in DOMAIN dirs :
        /\ WritesPending(p)
        /\ pipes[p].genId \in DOMAIN dirs
        /\ pipes[p].genId # old
        /\ dirs[pipes[p].genId].birth < now
        /\ dirs[pipes[p].genId].birth = sweep.oneHourAgo
        /\ sweep.stats = {}
        /\ sweep.rms = {old}
        /\ ~sweep.readdir

(***************************************************************************)
(* Properties of completion                                                *)
(***************************************************************************)

\* C25: a status answer that reports completed carries the task's result,
\* and the archive named by result.zipPath is on disk.
C25_CompletedCarriesResult ==
    (answer.to = "status" /\ answer.code = 200 /\ answer.task.status = "completed")
    => /\ answer.task.result.present
       /\ answer.task.result.zipDir \in DOMAIN dirs
       /\ dirs[answer.task.result.zipDir].zip

\* the task id belongs to one pipeline only, before and after the step
SoleOwner(p) ==
    /\ \A q \in 1..Len(pipes) : q # p => pipes[q].taskId # pipes[p].taskId
    /\ \A q \in 1..Len(pipes') : q # p => pipes'[q].taskId # pipes[p].taskId

\* C26: completed and error are absorbing: once a task's record has one of
\* them, no step of its pipeline and no status query changes the status.
C26_TerminalStatusAbsorbing ==
    [][\A p \in 1..Len(pipes) :
         (/\ SoleOwner(p)
          /\ activeTasks[pipes[p].taskId].status \in {"completed", "error"})
         => activeTasks'[pipes[p].taskId].status = activeTasks[pipes[p].taskId].status]_vars

(***************************************************************************)
(* Properties of polling and retry in the browser application              *)
(***************************************************************************)

\* an accepted refinement whose server task has ended
RefinementSettled ==
    /\ client.isAnalyzing
    /\ client.taskId = "refinement"
    /\ client.server.refinement \in StatusOutcomes

\* the application is back at rest: isAnalyzing cleared, no polling timer,
\* and the refined markup shown when the task completed
RefinementShown ==
    /\ ~client.isAnalyzing
    /\ ~client.effectPoll.set /\ ~client.analyzePoll.set
    /\ client.server.refinement = "completed" => client.htmlContent = "refined"

\* C27: after an accepted refinement, once the server task is completed or
\* in error, the application eventually clears isAnalyzing, stops its polling
\* timer and, on completion, shows the refined markup.
C27_RefinementPolledToEnd == RefinementSettled ~> RefinementShown

\* C30: when handleRetry has switched the model (Opus to Sonnet or Sonnet to
\* Haiku, on the first retry), the generation request then submitted carries
\* the new model.
C30_RetrySubmitsNewModel ==
    [][(/\ client.timer.set /\ ~client'.timer.set
        /\ client.timer.media /\ client.timer.apiKey # ""
        /\ client.timer.retryCount = 0
        /\ client.timer.model \in {Opus, Sonnet})
       => client'.request =
            Request("generate-html", client.timer.apiKey,
                    IF client.timer.model = Opus THEN Sonnet ELSE Haiku)]_vars

(***************************************************************************)
(* Properties of the refinement result                                     *)
(***************************************************************************)

\* the number of calls of a kind a refinement pipeline has made
CallCount(p, kind) == Cardinality({k \in 1..Len(pipes[p].calls) : pipes[p].calls[k] = kind})

\* C28: the result a refinement stores has iterationCount equal to the
\* number of improvement calls made, one less than the number of critique
\* calls and one less than the iterationCount field of the task record, at
\* most 2, and isMatch true exactly when the last critique declared a match.
C28_ResultCountsIterations ==
    [][\A p \in 1..Len(pipes) :
         (pipes[p].pc = "rzip" /\ pipes'[p].pc = "finished") =>
            LET task == activeTasks'[pipes[p].taskId] IN
            /\ task.result.present
            /\ task.result.iterationCount = CallCount(p, "improve")
            /\ task.result.iterationCount = CallCount(p, "critique") - 1
            /\ task.result.iterationCount = task.iterationCount - 1
            /\ task.result.iterationCount <= 2
            /\ task.result.isMatch = pipes[p].verdicts[Len(pipes[p].verdicts)]]_vars

(***************************************************************************)
(* Properties of the download endpoint                                     *)
(***************************************************************************)

\* the path lies below the artifact root
UnderTempDir(path) ==
    /\ Len(path) > Len(tempDir)
    /\ SubSeq(path, 1, Len(tempDir)) = tempDir

\* C29: for every pair of path parameters the download endpoint streams
\* nothing (it answers 404) or streams a file that lies under the artifact
\* root.
C29_DownloadStaysInTempDir ==
    download.pc = "answered" =>
        \/ download.streamed = NoPath
        \/ download.code = 200 /\ UnderTempDir(download.streamed)

====
